---- MODULE Spec2Model ----
(***************************************************************************)
(* power-control.py: the time-proportioning power output engine            *)
(* (PowerControl), the command gateway (GetCommand), the shutdown timer    *)
(* (ShutdownTimer) and the cooperative poll cycle that runs them.          *)
(*                                                                         *)
(* Representation.                                                         *)
(*   - A power level is an integer number of tenths (42.3 is 423): every   *)
(*     level the program stores went through round (x, 1).                 *)
(*   - A numeral received by the gateway is an integer number of           *)
(*     hundredths (the text "42.26" is 4226).                              *)
(*   - Time is the poller's millisecond tick counter, which wraps at       *)
(*     TICKS_PERIOD.  Durations are whole ticks.                           *)
(***************************************************************************)
EXTENDS Integers, Sequences, FiniteSets, TLC

VARIABLES
    now,           \* poller.get_current_time_ms (): the wrapping tick counter
    pc,            \* position of the poll loop: whose poll_it runs next
    running,       \* FALSE once poller.shutdown () has been requested
    powercontrol,  \* the bus record of topic "powercontrol"
    engine,        \* the PowerControl object
    poll_udp,      \* GetCommand.poll_udp
    drained,       \* datagrams this UDP poll has received so far
    timer,         \* the ShutdownTimer object
    wrote,         \* history: the gateway wrote "powercontrol" in this cycle
    silence,       \* history: real ticks elapsed since the last bus write
    since_flip,    \* history: real ticks since the output pin last changed
    handled,       \* history: the input the gateway handled last in this
                   \* cycle, and what became of its connection
    served,        \* history: the sources of the gateway's last two polls
    pid,           \* the bus records "pid_settings" and "pid_control", and
                   \* the PIDControl object
    commanded      \* history: a command has written "powercontrol"

vars == << now, pc, running, powercontrol, engine, poll_udp, drained, timer,
           wrote, silence, since_flip, handled, served, pid, commanded >>

(***************************************************************************)
(* Program constants.                                                      *)
(***************************************************************************)
Tenths(units) == units * 10

MINIMUM_PULSE_WIDTH_MS == 2000
STANDBY_TIMEOUT_SECONDS == 60
STANDBY_POWER_LEVEL == Tenths(20)
\* self.power_level = 50.0    # Should be zero
CONSTRUCTED_POWER_LEVEL == Tenths(50)
\* the "always" duration written by new_power_level
ALWAYS_MS == 999999

(***************************************************************************)
(* Bounds of the model.                                                    *)
(***************************************************************************)
\* minimum_pulse_ms the state-machine specification constructs the engine with
PulseTicks == 2
\* standby timeout (in ticks) the state-machine specification constructs with
TimeoutTicks == 4
\* run_ms of the ShutdownTimer: the run is shut down after this many ticks
RunTicks == 9
\* the longest time one poll cycle takes, in ticks
MaxStep == 2
\* the most datagrams queued when the gateway polls its UDP socket
MaxDatagrams == 2
\* the tick counter starts this many ticks before it wraps
WrapLead == 3

(***************************************************************************)
(* The poller's clock (utime ticks).                                       *)
(***************************************************************************)
TICKS_PERIOD == 1073741824

ticks_add(t, delta) == (t + delta) % TICKS_PERIOD

ticks_diff(a, b) ==
    ((a - b + TICKS_PERIOD \div 2) % TICKS_PERIOD) - TICKS_PERIOD \div 2

\* poller.active_now (deadline): the deadline has been reached at tick t
active_now(t, deadline) == ticks_diff(t, deadline) >= 0

\* poller.active_next_ms (offset) evaluated at tick t
active_next_ms(t, offset) == ticks_add(t, offset)

seconds_to_ms(seconds) == seconds * 1000

\* a bus topic no message_set has created yet
NoRecord == [field \in {} |-> 0]

\* poller.message_set (topic, partial): merge the partial record into the
\* topic's record and stamp it with the current time
message_set(record, partial, t) ==
    [last_update_ms |-> t] @@ partial @@ record

(***************************************************************************)
(* PowerControl: the pulse plan.                                           *)
(***************************************************************************)
\* int (minimum_pulse_ms / (part * 0.01)) is evaluated in binary floating
\* point.  It equals the exact truncated quotient except where the exact
\* quotient is an integer and the rounded divisor lands just above the exact
\* one: the double quotient is then just below that integer and int () gives
\* one less.  These are the << minimum_pulse_ms, level >> pairs at which
\* that happens (IEEE-754 doubles), for the pulse widths 2, 3 and 2000 and
\* every level of one decimal place.
DoubleTruncLoss ==
    { <<3, 976>>, <<3, 988>>, <<2000, 936>>, <<2000, 968>> }

\* int (minimum_pulse_ms / (part * 0.01)) for the level `level`, where part
\* is 100.0 - level or level, in tenths
PulseQuotient(minimum_pulse_ms, level, part) ==
    ((minimum_pulse_ms * 1000) \div part)
        - (IF <<minimum_pulse_ms, level>> \in DoubleTruncLoss THEN 1 ELSE 0)

\* a PlanOn whose last boundary is "> 1.0": level 1.0 is always off
PlanOn_above_one(minimum_pulse_ms, level) ==
    IF level > Tenths(99) THEN ALWAYS_MS
    ELSE IF level >= Tenths(50)
        THEN PulseQuotient(minimum_pulse_ms, level, Tenths(100) - level)
                 - minimum_pulse_ms
    ELSE IF level > Tenths(1) THEN minimum_pulse_ms
    ELSE 0

\* self.on_ms as new_power_level sets it
PlanOn(minimum_pulse_ms, level) ==
    IF level > Tenths(99) THEN ALWAYS_MS
    ELSE IF level >= Tenths(50)
        THEN PulseQuotient(minimum_pulse_ms, level, Tenths(100) - level)
                 - minimum_pulse_ms
    ELSE IF level >= Tenths(1) THEN minimum_pulse_ms
    ELSE 0

\* a PlanOff that forgets to take the on pulse out of the period
PlanOff_whole_period(minimum_pulse_ms, level) ==
    IF level > Tenths(99) THEN 0
    ELSE IF level >= Tenths(50) THEN minimum_pulse_ms
    ELSE IF level >= Tenths(1)
        THEN PulseQuotient(minimum_pulse_ms, level, level)
    ELSE ALWAYS_MS

\* self.off_ms as new_power_level sets it
PlanOff(minimum_pulse_ms, level) ==
    IF level > Tenths(99) THEN 0
    ELSE IF level >= Tenths(50) THEN minimum_pulse_ms
    ELSE IF level >= Tenths(1)
        THEN PulseQuotient(minimum_pulse_ms, level, level) - minimum_pulse_ms
    ELSE ALWAYS_MS

set_power_on(self) == [self EXCEPT !.power_on = TRUE]

set_power_off(self) == [self EXCEPT !.power_on = FALSE]

\* a new_power_level that takes an equal level for an increase
new_power_level_on_equal(self, power_level, t) ==
    LET power_increase == power_level >= self.power_level
        planned == [self EXCEPT
                        !.power_level = power_level,
                        !.on_ms = PlanOn(self.minimum_pulse_ms, power_level),
                        !.off_ms = PlanOff(self.minimum_pulse_ms, power_level)]
    IN  IF power_increase
        THEN set_power_on([planned EXCEPT
                               !.change_ms = active_next_ms(t, planned.on_ms)])
        ELSE set_power_off([planned EXCEPT
                               !.change_ms = active_next_ms(t, planned.off_ms)])

\* PowerControl.new_power_level (power_level), called at tick t
new_power_level(self, power_level, t) ==
    LET power_increase == power_level > self.power_level
        planned == [self EXCEPT
                        !.power_level = power_level,
                        !.on_ms = PlanOn(self.minimum_pulse_ms, power_level),
                        !.off_ms = PlanOff(self.minimum_pulse_ms, power_level)]
    IN  IF power_increase
        THEN set_power_on([planned EXCEPT
                               !.change_ms = active_next_ms(t, planned.on_ms)])
        ELSE set_power_off([planned EXCEPT
                               !.change_ms = active_next_ms(t, planned.off_ms)])

\* a set_standby_on with its commented-out line 533 in force: the fallback
\* level is written into the bus record
set_standby_on_writes_bus(self, t) ==
    new_power_level(
        [self EXCEPT !.standby = TRUE,
                     !.power_settings.power_level = self.standby_power_level],
        self.standby_power_level, t)

\* PowerControl.set_standby_on ()
set_standby_on(self, t) ==
    new_power_level([self EXCEPT !.standby = TRUE], self.standby_power_level, t)

\* a set_standby_off that leaves the flag set
set_standby_off_keeps_flag(self) == self

\* PowerControl.set_standby_off ()
set_standby_off(self) ==
    IF ~self.standby THEN self ELSE [self EXCEPT !.standby = FALSE]

\* PowerControl.shutdown ()
PowerControl_shutdown(self, t) == new_power_level(self, Tenths(0), t)

\* a dirty flag that watches the value in place of the timestamp
bus_changed_by_value(self) ==
    self.power_level # self.power_settings.power_level

\* the test that opens PowerControl.poll_it: the bus record was written
\* since the engine last looked
bus_changed(self) ==
    self.last_update_ms # self.power_settings.last_update_ms

\* an observe_update that only ever raises the applied level
observe_update_raises_only(self, t) ==
    LET seen == set_standby_off(
                    [self EXCEPT
                         !.last_update_ms = self.power_settings.last_update_ms])
    IN  IF self.power_settings.power_level > seen.power_level
        THEN new_power_level(seen, self.power_settings.power_level, t)
        ELSE seen

\* a first branch that applies the level of every write, changed or not
observe_update_applies_always(self, t) ==
    LET seen == set_standby_off(
                    [self EXCEPT
                         !.last_update_ms = self.power_settings.last_update_ms])
    IN  new_power_level(seen, self.power_settings.power_level, t)

\* the first branch of PowerControl.poll_it: a new bus timestamp is taken
\* over, standby ends and a changed level is applied
observe_update(self, t) ==
    LET seen == set_standby_off(
                    [self EXCEPT
                         !.last_update_ms = self.power_settings.last_update_ms])
    IN  IF self.power_settings.power_level # seen.power_level
        THEN new_power_level(seen, self.power_settings.power_level, t)
        ELSE seen

\* a timeout test that compares the tick with an unwrapped deadline
standby_due_unwrapped_deadline(self, t) ==
    /\ ~self.standby
    /\ self.power_level > self.standby_power_level
    /\ t > self.last_update_ms + self.standby_timeout

\* a timeout test that subtracts the ticks where the code uses ticks_diff
standby_due_raw_subtraction(self, t) ==
    /\ ~self.standby
    /\ self.power_level > self.standby_power_level
    /\ t - self.last_update_ms > self.standby_timeout

\* the timeout test of PowerControl.poll_it
standby_due(self, t) ==
    /\ ~self.standby
    /\ self.power_level > self.standby_power_level
    /\ ticks_diff(t, self.last_update_ms) > self.standby_timeout

\* a square wave that waits the duration of the pulse it has just ended
flip_if_due_same_duration(self, t) ==
    IF active_now(t, self.change_ms)
    THEN IF self.power_on
         THEN IF self.off_ms > 0
              THEN [set_power_off(self) EXCEPT
                        !.change_ms = active_next_ms(t, self.on_ms)]
              ELSE self
         ELSE IF self.on_ms > 0
              THEN [set_power_on(self) EXCEPT
                        !.change_ms = active_next_ms(t, self.off_ms)]
              ELSE self
    ELSE self

\* a square wave that flips at every poll, whatever self.change_ms
flip_if_due_ignores_deadline(self, t) ==
    IF self.power_on
    THEN IF self.off_ms > 0
         THEN [set_power_off(self) EXCEPT
                   !.change_ms = active_next_ms(t, self.off_ms)]
         ELSE self
    ELSE IF self.on_ms > 0
         THEN [set_power_on(self) EXCEPT
                   !.change_ms = active_next_ms(t, self.on_ms)]
         ELSE self

\* the tail of PowerControl.poll_it: the free-running square wave
flip_if_due(self, t) ==
    IF active_now(t, self.change_ms)
    THEN IF self.power_on
         THEN IF self.off_ms > 0
              THEN [set_power_off(self) EXCEPT
                        !.change_ms = active_next_ms(t, self.off_ms)]
              ELSE self
         ELSE IF self.on_ms > 0
              THEN [set_power_on(self) EXCEPT
                        !.change_ms = active_next_ms(t, self.on_ms)]
              ELSE self
    ELSE self

\* a poll_it that tests the timeout before it looks for a new timestamp
PowerControl_poll_it_timeout_first(self, t) ==
    IF standby_due(self, t) THEN set_standby_on(self, t)
    ELSE IF bus_changed(self) THEN observe_update(self, t)
    ELSE flip_if_due(self, t)

\* PowerControl.poll_it () at tick t
PowerControl_poll_it(self, t) ==
    IF bus_changed(self) THEN observe_update(self, t)
    ELSE IF standby_due(self, t) THEN set_standby_on(self, t)
    ELSE flip_if_due(self, t)

\* PowerControl.__init__: the fields, the write that initialises the bus
\* record, then new_power_level (self.power_level).  created is the tick of
\* self.last_update_ms, t the tick of the bus write and of the first plan;
\* bus is the record GetCommand.__init__ left.
PowerControl_init(bus, created, t, standby_timeout, standby_power_level, minimum_pulse_ms) ==
    new_power_level(
        [power_level |-> CONSTRUCTED_POWER_LEVEL,
         minimum_pulse_ms |-> minimum_pulse_ms,
         standby |-> FALSE,
         standby_timeout |-> standby_timeout,
         standby_power_level |-> standby_power_level,
         power_on |-> FALSE,
         last_update_ms |-> created,
         power_settings |->
             message_set(bus, [power_level |-> Tenths(0),
                               last_update_ms |-> t], t),
         on_ms |-> 0, off_ms |-> 0, change_ms |-> t],
        CONSTRUCTED_POWER_LEVEL, t)

\* GetCommand.__init__: the bus record it creates at tick t
GetCommand_init(t) ==
    message_set([power_level |-> Tenths(0), last_update_ms |-> t],
                [power_level |-> Tenths(0), last_update_ms |-> t], t)

\* The PowerControl object holds self.power_settings, a live reference to
\* the bus record: its methods see, and could write, the record itself.
\* The engine variable holds the object's own fields, powercontrol the
\* record.
EngineFields ==
    { "power_level", "minimum_pulse_ms", "standby", "standby_timeout",
      "standby_power_level", "power_on", "last_update_ms", "on_ms", "off_ms",
      "change_ms" }

Attached(fields, bus) == [power_settings |-> bus] @@ fields

OwnFields(self) == [f \in EngineFields |-> self[f]]

(***************************************************************************)
(* GetCommand.                                                             *)
(***************************************************************************)
\* a rounding that cuts the second decimal off
Round1_truncates(hundredths) == hundredths \div 10

\* round (float (text), 1) of a numeral of `hundredths` hundredths, in
\* tenths.  A tie is broken to even, as round () breaks it when the numeral
\* is exact in binary (x.25, x.75); the numerals below hold no other tie.
Round1(hundredths) ==
    LET q == hundredths \div 10
        r == hundredths % 10
    IN  IF r < 5 THEN q
        ELSE IF r > 5 THEN q + 1
        ELSE IF q % 2 = 0 THEN q ELSE q + 1

\* the numerals a command carries as power_level, in hundredths
Numerals == { -500, 0, 50, 2000, 4226, 6000, 11000 }

\* the params object of a request: power_level missing, not a number, or a
\* numeral
ParamsSet ==
    { [has_power_level |-> FALSE, numeric |-> FALSE, value |-> 0],
      [has_power_level |-> TRUE, numeric |-> FALSE, value |-> 0] }
    \cup { [has_power_level |-> TRUE, numeric |-> TRUE, value |-> v] :
               v \in Numerals }

\* whether GetCommand.set_power_level (params) reaches message_set
writes_power_level(params) == params.has_power_level /\ params.numeric

\* a set_power_level that stamps the record when the number does not parse
set_power_level_stamps_anyway(bus, params, t) ==
    IF ~params.has_power_level THEN bus
    ELSE IF ~params.numeric THEN message_set(bus, NoRecord, t)
    ELSE message_set(bus, [power_level |-> Round1(params.value)], t)

\* GetCommand.set_power_level (params) at tick t: the bus record it leaves
set_power_level(bus, params, t) ==
    IF ~params.has_power_level THEN bus
    ELSE IF ~params.numeric THEN bus            \* float () raised: except
    ELSE message_set(bus, [power_level |-> Round1(params.value)], t)

\* A datagram: whether it decodes and parses as JSON, which of the
\* required fields it holds, its method and its params.
Datagram(parses, jsonrpc, method, has_params, params) ==
    [parses |-> parses, has_jsonrpc |-> jsonrpc, method |-> method,
     has_params |-> has_params, params |-> params]

NoParams == [has_power_level |-> FALSE, numeric |-> FALSE, value |-> 0]

Datagrams ==
    { Datagram(FALSE, FALSE, "none", FALSE, NoParams),
      Datagram(TRUE, FALSE, "set_power_level", TRUE,
               [has_power_level |-> TRUE, numeric |-> TRUE, value |-> 4226]),
      Datagram(TRUE, TRUE, "none", TRUE, NoParams),
      Datagram(TRUE, TRUE, "set_power_level", FALSE, NoParams),
      Datagram(TRUE, TRUE, "pid_update", TRUE,
               [has_current_temperature |-> FALSE]),
      Datagram(TRUE, TRUE, "pid_update", TRUE,
               [has_current_temperature |-> TRUE]),
      Datagram(TRUE, TRUE, "shutdown", TRUE, NoParams),
      Datagram(TRUE, TRUE, "other", TRUE, NoParams) }
    \cup { Datagram(TRUE, TRUE, "set_power_level", TRUE, p) : p \in ParamsSet }

\* The gateway's view while it handles its input: the bus record, whether
\* shutdown was requested, whether an exception escaped poll_it, whether
\* message_set was called on "powercontrol", the power level of the page
\* sent with conn.sendall (<<>> when no page was sent), and whether
\* conn.close () ran.
Handling(bus, run) ==
    [bus |-> bus, running |-> run, raised |-> FALSE, wrote |-> FALSE,
     page |-> <<>>, closed |-> FALSE]

\* GetCommand.process_request (request) at tick t.  method "none" is a
\* request without the method field.
process_request(h, request, t) ==
    IF ~request.has_jsonrpc THEN h
    ELSE IF request.method = "none" THEN h
    ELSE IF ~request.has_params THEN h
    ELSE IF request.method = "set_power_level"
         THEN [h EXCEPT !.bus = set_power_level(h.bus, request.params, t),
                        !.wrote = @ \/ writes_power_level(request.params)]
    ELSE IF request.method = "pid_update"
         THEN [h EXCEPT !.raised = TRUE]        \* NameError: rquest
    ELSE IF request.method = "shutdown"
         THEN [h EXCEPT !.running = FALSE]      \* poller.shutdown ()
    ELSE h

\* one turn of the UDP loop of GetCommand.poll_it: recvfrom returned the
\* datagram, which is decoded, parsed and processed
receive_udp(h, datagram, t) ==
    IF ~datagram.parses
    THEN [h EXCEPT !.raised = TRUE]             \* ValueError from json.loads
    ELSE process_request(h, datagram, t)

\* the numerals the web form sends as power_level, in hundredths
WebNumerals == { 1000 }

\* A web request: no connection pending, GET / (no path), GET of a path
\* without a query string, or GET /?... with its parameters (power_level
\* missing, not a number, or a numeral).
WebRequests ==
    { [kind |-> "none", params |-> NoParams],
      [kind |-> "root", params |-> NoParams],
      [kind |-> "file", params |-> NoParams],
      [kind |-> "query", params |-> NoParams],
      [kind |-> "query",
       params |-> [has_power_level |-> TRUE, numeric |-> FALSE, value |-> 0]] }
    \cup { [kind |-> "query",
            params |-> [has_power_level |-> TRUE, numeric |-> TRUE,
                        value |-> v]] : v \in WebNumerals }

\* GetCommand.qs_parse (request): "page" for the empty parameters of a
\* request the pattern does not match (GET /), "none" for None (a path that
\* does not start with "?"), "params" for a parsed query string
qs_parse(request) ==
    IF request.kind = "root" THEN "page"
    ELSE IF request.kind = "file" THEN "none"
    ELSE "params"

\* the page and the close that end the web branch
send_page(h) == [h EXCEPT !.page = << h.bus.power_level >>, !.closed = TRUE]

\* a web branch that writes the level it shows back to the bus
serve_web_writes_back(h, request, t) ==
    IF request.kind = "none" THEN h
    ELSE IF qs_parse(request) = "none"
         THEN [h EXCEPT !.closed = TRUE]
    ELSE IF qs_parse(request) = "params"
         THEN send_page(
                  [h EXCEPT !.bus = set_power_level(h.bus, request.params, t),
                            !.wrote = @ \/ writes_power_level(request.params)])
    ELSE send_page(
             [h EXCEPT !.bus = message_set(h.bus, [power_level |->
                                                      h.bus.power_level], t)])

\* the web branch of GetCommand.poll_it
serve_web(h, request, t) ==
    IF request.kind = "none" THEN h             \* accept raised OSError
    ELSE IF qs_parse(request) = "none"
         THEN [h EXCEPT !.closed = TRUE]        \* return, then finally
    ELSE IF qs_parse(request) = "params"
         THEN send_page(
                  [h EXCEPT !.bus = set_power_level(h.bus, request.params, t),
                            !.wrote = @ \/ writes_power_level(request.params)])
    ELSE send_page(h)

(***************************************************************************)
(* ShutdownTimer.                                                          *)
(***************************************************************************)
ShutdownTimer_init(t, run_ms) ==
    [run_ms |-> run_ms, run_time_ms |-> t, last_time_ms |-> t,
     stop_time_ms |-> t + run_ms]

\* the timer object after ShutdownTimer.poll_it () at tick t
ShutdownTimer_poll_it(self, t) ==
    IF self.run_ms <= 0 THEN self
    ELSE [self EXCEPT
              !.run_time_ms = @ + ticks_diff(t, self.last_time_ms),
              !.last_time_ms = t]

\* whether that poll calls poller.shutdown ()
ShutdownTimer_expired(self, t) ==
    /\ self.run_ms > 0
    /\ ShutdownTimer_poll_it(self, t).run_time_ms >= self.stop_time_ms

(***************************************************************************)
(* The poll loop: each cycle polls the ShutdownTimer, GetCommand and       *)
(* PowerControl in the order of their poll_add, then waits.                *)
(***************************************************************************)
Min(a, b) == IF a <= b THEN a ELSE b

\* the gateway has handled no input in this cycle
NoInput == [input |-> <<>>, page |-> <<>>, closed |-> FALSE]

\* the program never constructs a PIDControl, and no message_set reaches
\* "pid_settings" or "pid_control"
NoPid == [pid_settings |-> NoRecord, pid_control |-> NoRecord,
          bridge |-> NoRecord]

\* the history of the output pin after a step that leaves the engine as
\* `after`
Flipped(after) == IF after.power_on # engine.power_on THEN 0 ELSE since_flip

Init ==
    \E same_tick \in BOOLEAN :
        LET created == TICKS_PERIOD - WrapLead
            t == IF same_tick THEN created ELSE ticks_add(created, 1)
            built == PowerControl_init(GetCommand_init(created), created, t,
                                       TimeoutTicks, STANDBY_POWER_LEVEL,
                                       PulseTicks)
        IN  /\ now = t
            /\ pc = "sleep"
            /\ running = TRUE
            /\ powercontrol = built.power_settings
            /\ engine = OwnFields(built)
            /\ poll_udp = TRUE
            /\ drained = 0
            /\ timer = ShutdownTimer_init(created, RunTicks)
            /\ wrote = FALSE
            /\ silence = 0
            /\ since_flip = PulseTicks
            /\ handled = NoInput
            /\ served = << "none", "none" >>
            /\ commanded = FALSE
            /\ pid = NoPid

\* the loop waits for the next cycle: time passes
Sleep(d) ==
    /\ pc = "sleep"
    /\ running
    /\ now' = ticks_add(now, d)
    /\ pc' = "timer"
    /\ wrote' = FALSE
    /\ silence' = silence + d
    /\ since_flip' = Min(since_flip + d, engine.minimum_pulse_ms)
    /\ UNCHANGED << running, powercontrol, engine, poll_udp, drained, timer,
                    handled, served, pid, commanded >>

TimerPoll ==
    /\ pc = "timer"
    /\ timer' = ShutdownTimer_poll_it(timer, now)
    /\ running' = (running /\ ~ShutdownTimer_expired(timer, now))
    /\ pc' = "gateway"
    /\ UNCHANGED << now, powercontrol, engine, poll_udp, drained, wrote,
                    silence, since_flip, handled, served, pid, commanded >>

\* a poll_it whose web branch forgets to hand the turn back
GatewayPoll_web_keeps_turn ==
    /\ pc = "gateway"
    /\ pc' = IF poll_udp THEN "udp" ELSE "web"
    /\ poll_udp' = FALSE
    /\ drained' = 0
    /\ served' = << served[2], IF poll_udp THEN "udp" ELSE "web" >>
    /\ UNCHANGED << now, running, powercontrol, engine, timer, wrote, silence,
                    since_flip, handled, pid, commanded >>

\* GetCommand.poll_it starts: it takes the other source than last time
GatewayPoll ==
    /\ pc = "gateway"
    /\ pc' = IF poll_udp THEN "udp" ELSE "web"
    /\ poll_udp' = ~poll_udp
    /\ drained' = 0
    /\ served' = << served[2], IF poll_udp THEN "udp" ELSE "web" >>
    /\ UNCHANGED << now, running, powercontrol, engine, timer, wrote, silence,
                    since_flip, handled, pid, commanded >>

\* what the gateway leaves after it handled `input` as h; it goes on at
\* `next` unless an exception escaped
GatewayDone(h, input, next) ==
    /\ powercontrol' = h.bus
    /\ running' = h.running
    /\ pc' = IF h.raised THEN "crashed" ELSE next
    /\ wrote' = (wrote \/ h.wrote)
    /\ silence' = IF h.wrote THEN 0 ELSE silence
    /\ handled' = [input |-> << input >>, page |-> h.page,
                   closed |-> h.closed]
    /\ commanded' = (commanded \/ h.wrote)
    /\ UNCHANGED << now, engine, poll_udp, timer, since_flip, served, pid >>

\* recvfrom returns a queued datagram
GatewayReceive(datagram) ==
    /\ pc = "udp"
    /\ drained < MaxDatagrams
    /\ drained' = drained + 1
    /\ GatewayDone(receive_udp(Handling(powercontrol, running), datagram, now),
                   datagram, "udp")

\* recvfrom raises OSError: no datagram is queued
GatewayUdpEmpty ==
    /\ pc = "udp"
    /\ pc' = "engine"
    /\ drained' = 0
    /\ handled' = NoInput
    /\ UNCHANGED << now, running, powercontrol, engine, poll_udp, timer, wrote,
                    silence, since_flip, served, pid, commanded >>

GatewayPollWeb(request) ==
    /\ pc = "web"
    /\ GatewayDone(serve_web(Handling(powercontrol, running), request, now),
                   request, "engine")
    /\ UNCHANGED drained

EnginePoll ==
    /\ pc = "engine"
    /\ LET after == PowerControl_poll_it(Attached(engine, powercontrol), now)
       IN  /\ engine' = OwnFields(after)
           /\ powercontrol' = after.power_settings
    /\ since_flip' = Flipped(engine')
    /\ pc' = "sleep"
    /\ handled' = NoInput
    /\ UNCHANGED << now, running, poll_udp, drained, timer, wrote, silence,
                    served, pid, commanded >>

\* poller.shutdown () was requested: the loop ends and every component's
\* shutdown () runs
PollerShutdown ==
    /\ ~running
    /\ pc \in { "gateway", "udp", "web", "engine", "sleep" }
    /\ LET after == PowerControl_shutdown(Attached(engine, powercontrol), now)
       IN  /\ engine' = OwnFields(after)
           /\ powercontrol' = after.power_settings
    /\ since_flip' = Flipped(engine')
    /\ pc' = "stopped"
    /\ handled' = NoInput
    /\ UNCHANGED << now, running, poll_udp, drained, timer, wrote, silence,
                    served, pid, commanded >>

Next ==
    \/ \E d \in 1..MaxStep : Sleep(d)
    \/ TimerPoll
    \/ GatewayPoll
    \/ \E datagram \in Datagrams : GatewayReceive(datagram)
    \/ GatewayUdpEmpty
    \/ \E request \in WebRequests : GatewayPollWeb(request)
    \/ EnginePoll
    \/ PollerShutdown

Spec == Init /\ [][Next]_vars

(***************************************************************************)
(* The pulse plan on its own: an engine constructed with the program's     *)
(* defaults, to which new_power_level applies every level in turn.         *)
(***************************************************************************)
\* levels this far below 0 and above 100 are applied too
PlanMargin == 20

PlanLevels == (Tenths(0) - PlanMargin) .. (Tenths(100) + PlanMargin)

InitPlan ==
    /\ now = TICKS_PERIOD - WrapLead
    /\ pc = "plan"
    /\ running = TRUE
    /\ LET built == PowerControl_init(GetCommand_init(now), now, now,
                                      seconds_to_ms(STANDBY_TIMEOUT_SECONDS),
                                      STANDBY_POWER_LEVEL,
                                      MINIMUM_PULSE_WIDTH_MS)
       IN  /\ powercontrol = built.power_settings
           /\ engine = OwnFields(built)
    /\ poll_udp = TRUE
    /\ drained = 0
    /\ timer = ShutdownTimer_init(now, RunTicks)
    /\ wrote = FALSE
    /\ silence = 0
    /\ since_flip = MINIMUM_PULSE_WIDTH_MS
    /\ handled = NoInput
    /\ served = << "none", "none" >>
    /\ commanded = FALSE
    /\ pid = NoPid

ApplyLevel(level) ==
    /\ pc = "plan"
    /\ LET after == new_power_level(Attached(engine, powercontrol), level, now)
       IN  /\ engine' = OwnFields(after)
           /\ powercontrol' = after.power_settings
    /\ UNCHANGED << now, pc, running, poll_udp, drained, timer, wrote, silence,
                    since_flip, handled, served, pid, commanded >>

NextPlan == \E level \in PlanLevels : ApplyLevel(level)

SpecPlan == InitPlan /\ [][NextPlan]_vars

(***************************************************************************)
(* PIDControl on its own.  main neither constructs a PIDControl nor adds   *)
(* one to the poller; this specification constructs the class as written   *)
(* and drives it with writes of the "pid_settings" topic, the writes the    *)
(* gateway's pid_update is meant to make, and with polls.                  *)
(***************************************************************************)
\* PIDControl.__init__: the object.  created is the tick of
\* self.last_update_ms.
PIDControl_init(created) == [last_update_ms |-> created, pid |-> "None"]

\* the record PIDControl.__init__ writes at tick t, to the topic
\* "pid_control"; self.pid_settings refers to this record
PIDControl_record(t) ==
    message_set(NoRecord,
                [power_level |-> 0, P |-> 2, I |-> 0, D |-> 0,  \* P = 0.2
                 set_point |-> 0, current_temperature |-> 0,
                 temperature_update |-> FALSE], t)

\* PIDControl.poll_it () at tick t.  watched is the record
\* self.pid_settings refers to.  On the first change it observes self.pid
\* is None, and PID.PID raises NameError: `import PID` in the class body
\* binds a class attribute, not a name a method can see.
PIDControl_poll_it(self, watched, bus, t) ==
    IF self.last_update_ms = watched.last_update_ms
    THEN [bridge |-> self, bus |-> bus, raised |-> FALSE]
    ELSE [bridge |-> [self EXCEPT !.last_update_ms = watched.last_update_ms],
          bus |-> bus, raised |-> TRUE]

\* the temperatures a sample carries
Temperatures == { 20, 30 }

\* the params of a pid_update as the gateway is meant to write them: with
\* temperature_update set by whether they hold a sample
PidSamples ==
    { [temperature_update |-> FALSE] }
    \cup { [current_temperature |-> c, temperature_update |-> TRUE] :
               c \in Temperatures }

InitPID ==
    \E same_tick \in BOOLEAN :
        LET created == TICKS_PERIOD - WrapLead
            t == IF same_tick THEN created ELSE ticks_add(created, 1)
            built == PowerControl_init(GetCommand_init(created), created,
                                       created, TimeoutTicks,
                                       STANDBY_POWER_LEVEL, PulseTicks)
        IN  /\ now = t
            /\ pc = "pid"
            /\ running = TRUE
            /\ powercontrol = built.power_settings
            /\ engine = OwnFields(built)
            /\ poll_udp = TRUE
            /\ drained = 0
            /\ timer = ShutdownTimer_init(created, RunTicks)
            /\ wrote = FALSE
            /\ silence = 0
            /\ since_flip = PulseTicks
            /\ handled = NoInput
            /\ served = << "none", "none" >>
            /\ commanded = FALSE
            /\ pid = [pid_settings |-> NoRecord,
                      pid_control |-> PIDControl_record(t),
                      bridge |-> PIDControl_init(created)]

\* time passes
PidTick ==
    /\ pc = "pid"
    /\ silence < RunTicks
    /\ now' = ticks_add(now, 1)
    /\ silence' = silence + 1
    /\ UNCHANGED << pc, running, powercontrol, engine, poll_udp, drained,
                    timer, wrote, since_flip, handled, served, pid, commanded >>

\* message_set ("pid_settings", sample)
PidSettingsWrite(sample) ==
    /\ pc = "pid"
    /\ pid' = [pid EXCEPT !.pid_settings = message_set(@, sample, now)]
    /\ handled' = [NoInput EXCEPT !.input = << sample >>]
    /\ UNCHANGED << now, pc, running, powercontrol, engine, poll_udp, drained,
                    timer, wrote, silence, since_flip, served, commanded >>

\* PIDControl.poll_it ()
BridgePoll ==
    /\ pc = "pid"
    /\ LET after == PIDControl_poll_it(pid.bridge, pid.pid_control,
                                       powercontrol, now)
       IN  /\ pid' = [pid EXCEPT !.bridge = after.bridge]
           /\ powercontrol' = after.bus
           /\ pc' = IF after.raised THEN "crashed" ELSE "pid"
    /\ handled' = NoInput
    /\ UNCHANGED << now, running, engine, poll_udp, drained, timer, wrote,
                    silence, since_flip, served, commanded >>

NextPID ==
    \/ PidTick
    \/ \E sample \in PidSamples : PidSettingsWrite(sample)
    \/ BridgePoll

SpecPID == InitPID /\ [][NextPID]_vars

(***************************************************************************)
(* The loop left running for ever, for what the output does in the long    *)
(* run: no ShutdownTimer, a gateway that receives at most one              *)
(* set_power_level datagram per cycle, then the engine's poll.             *)
(*                                                                         *)
(* poll_it reads the clock only through ticks_diff against its stamps and  *)
(* compares stamps for equality, and both are unchanged when the clock and *)
(* every stamp move by the same amount.  The state is therefore kept in    *)
(* the frame of the current tick: now stays 0 and a tick of sleep moves    *)
(* every stamp one tick into the past.                                     *)
(***************************************************************************)
\* a stamp this many ticks old is not moved further: poll_it tells ages
\* apart only up to standby_timeout, and a deadline that has passed stays
\* passed
AgeCap == 6

\* the stamp, after one more tick has passed, in the frame of the new tick
Rebase(stamp) ==
    IF ticks_diff(now, stamp) >= AgeCap THEN stamp ELSE ticks_add(stamp, -1)

\* an always-on or always-off plan: its deadline lies ALWAYS_MS ahead and the
\* flip at its expiry is barred, the duration of the other state being 0
\* (lines 515 and 519), so the deadline is kept as it is
Perpetual(self) == ALWAYS_MS \in { self.on_ms, self.off_ms }

\* the set_power_level datagrams of the steady sender: 10.0 and 50.0
SteadyDatagrams ==
    { Datagram(TRUE, TRUE, "set_power_level", TRUE,
               [has_power_level |-> TRUE, numeric |-> TRUE, value |-> v]) :
          v \in { 1000, 5000 } }

InitSteady ==
    \E same_tick \in BOOLEAN :
        LET t == 0
            created == IF same_tick THEN t ELSE ticks_add(t, -1)
            built == PowerControl_init(GetCommand_init(created), created, t,
                                       TimeoutTicks, STANDBY_POWER_LEVEL,
                                       PulseTicks)
        IN  /\ now = t
            /\ pc = "sleep"
            /\ running = TRUE
            /\ powercontrol = built.power_settings
            /\ engine = OwnFields(built)
            /\ poll_udp = TRUE
            /\ drained = 0
            /\ timer = ShutdownTimer_init(created, RunTicks)
            /\ wrote = FALSE
            /\ silence = 0
            /\ since_flip = PulseTicks
            /\ handled = NoInput
            /\ served = << "none", "none" >>
            /\ commanded = FALSE
            /\ pid = NoPid

\* the loop waits for the next cycle: one tick passes
SteadySleep ==
    /\ pc = "sleep"
    /\ pc' = "udp"
    /\ powercontrol' = [powercontrol EXCEPT !.last_update_ms = Rebase(@)]
    /\ engine' = [engine EXCEPT !.last_update_ms = Rebase(@),
                                !.change_ms = IF Perpetual(engine) THEN @
                                              ELSE Rebase(@)]
    /\ wrote' = FALSE
    /\ UNCHANGED << now, running, poll_udp, drained, timer, silence,
                    since_flip, handled, served, pid, commanded >>

\* GetCommand.poll_it: recvfrom returns the cycle's datagram, then raises
\* OSError
SteadyReceive(datagram) ==
    /\ pc = "udp"
    /\ LET h == receive_udp(Handling(powercontrol, running), datagram, now)
       IN  /\ powercontrol' = h.bus
           /\ wrote' = h.wrote
    /\ pc' = "engine"
    /\ UNCHANGED << now, running, engine, poll_udp, drained, timer, silence,
                    since_flip, handled, served, pid, commanded >>

\* GetCommand.poll_it: recvfrom raises OSError at once, no datagram is queued
SteadyUdpEmpty ==
    /\ pc = "udp"
    /\ pc' = "engine"
    /\ UNCHANGED << now, running, powercontrol, engine, poll_udp, drained,
                    timer, wrote, silence, since_flip, handled, served, pid,
                    commanded >>

SteadyEnginePoll ==
    /\ pc = "engine"
    /\ LET after == PowerControl_poll_it(Attached(engine, powercontrol), now)
       IN  /\ engine' = OwnFields(after)
           /\ powercontrol' = after.power_settings
    /\ pc' = "sleep"
    /\ UNCHANGED << now, running, poll_udp, drained, timer, wrote, silence,
                    since_flip, handled, served, pid, commanded >>

NextSteady ==
    \/ SteadySleep
    \/ \E datagram \in SteadyDatagrams : SteadyReceive(datagram)
    \/ SteadyUdpEmpty
    \/ SteadyEnginePoll

\* poll_start loops for ever: the next step of the cycle is always taken
SpecSteady == InitSteady /\ [][NextSteady]_vars /\ WF_vars(NextSteady)

(***************************************************************************)
(* Properties.                                                             *)
(***************************************************************************)
\* the step is a poll of the engine
EnginePolls == pc = "engine" /\ pc' = "sleep"

\* the engine is Active with an applied level above the fallback level and
\* has seen the latest bus write
ActiveAboveFallback ==
    /\ ~engine.standby
    /\ engine.power_level > engine.standby_power_level
    /\ engine.last_update_ms = powercontrol.last_update_ms

EntersStandby ==
    /\ engine'.standby
    /\ engine'.power_level = engine.standby_power_level

\* C1, as stated: an Active engine whose applied level is above the fallback
\* level and whose bus record was not written for timeout_ms or longer
\* (exactly timeout_ms included) enters Standby at its poll and applies the
\* fallback level.
C1_StandbyFromTimeout ==
    [][ (EnginePolls /\ ActiveAboveFallback
            /\ silence >= engine.standby_timeout) => EntersStandby ]_vars

\* C1, amended: the same with a silence strictly longer than timeout_ms.
C1_StandbyPastTimeout ==
    [][ (EnginePolls /\ ActiveAboveFallback
            /\ silence > engine.standby_timeout) => EntersStandby ]_vars

\* the engine has just entered Standby after a silence longer than the
\* timeout, and applies the fallback level in place of the requested one
C1_Witness ==
    /\ pc = "sleep"
    /\ engine.standby
    /\ engine.power_level = engine.standby_power_level
    /\ powercontrol.power_level > engine.standby_power_level
    /\ silence > engine.standby_timeout

\* C2: an engine poll that follows a write of the bus record while the
\* engine is in Standby leaves Standby, whether or not the written level
\* differs.
C2_StandbyExit ==
    [][ (EnginePolls /\ engine.standby /\ wrote) => ~engine'.standby ]_vars

\* the engine is in Standby and is about to poll after a write that re-sent
\* the very level it applies
C2_Witness ==
    /\ pc = "engine"
    /\ engine.standby
    /\ wrote
    /\ powercontrol.power_level = engine.power_level

\* C3: while the loop runs and the applied level is below 1 (here: from 0
\* to 0.9) the output is not driven on.
C3_OffBelowOne ==
    (/\ pc \notin { "stopped", "crashed" }
     /\ engine.power_level >= Tenths(0)
     /\ engine.power_level < Tenths(1)) => ~engine.power_on

\* C4: the stored power_level lies in [0,100] (it has one decimal place by
\* its representation).
C4_StoredLevelInRange ==
    powercontrol.power_level \in Tenths(0) .. Tenths(100)

\* the pulse plan with exactly truncated quotients
ExactOn(M, level) ==
    IF level > Tenths(99) THEN ALWAYS_MS
    ELSE IF level >= Tenths(50) THEN (M * level) \div (Tenths(100) - level)
    ELSE IF level >= Tenths(1) THEN M
    ELSE 0

ExactOff(M, level) ==
    IF level > Tenths(99) THEN 0
    ELSE IF level >= Tenths(50) THEN M
    ELSE IF level >= Tenths(1) THEN (M * (Tenths(100) - level)) \div level
    ELSE ALWAYS_MS

\* C5, as stated: the plan of the applied level is the always-on sentinel
\* above 99, off = M and on = M*level/(100-level) truncated from 50 to 99,
\* on = M and off = M*(100-level)/level truncated from 1 below 50, and the
\* always-off sentinel below 1.
C5_PlanExact ==
    /\ engine.on_ms = ExactOn(engine.minimum_pulse_ms, engine.power_level)
    /\ engine.off_ms = ExactOff(engine.minimum_pulse_ms, engine.power_level)

\* C5, amended: the same branches, the computed quotient being the
\* truncated one or one millisecond less.
C5_PlanBranches ==
    LET M == engine.minimum_pulse_ms
        level == engine.power_level
    IN  /\ engine.on_ms \in { ExactOn(M, level), ExactOn(M, level) - 1 }
        /\ engine.off_ms \in { ExactOff(M, level), ExactOff(M, level) - 1 }
        /\ level > Tenths(99) =>
               engine.on_ms = ALWAYS_MS /\ engine.off_ms = 0
        /\ (level >= Tenths(50) /\ level <= Tenths(99)) => engine.off_ms = M
        /\ (level >= Tenths(1) /\ level < Tenths(50)) => engine.on_ms = M
        /\ level < Tenths(1) =>
               engine.on_ms = 0 /\ engine.off_ms = ALWAYS_MS

\* level 93.6 is applied and the on duration is one less than the truncated
\* quotient 29250
C5_Witness ==
    /\ pc = "plan"
    /\ engine.power_level = 936
    /\ engine.on_ms = ExactOn(MINIMUM_PULSE_WIDTH_MS, 936) - 1
    /\ engine.off_ms = MINIMUM_PULSE_WIDTH_MS

\* the realized duty cycle is the level's share of the period to within one
\* millisecond of on time, and the shorter pulse is the minimum pulse width
DutyMatches ==
    LET on == engine.on_ms
        off == engine.off_ms
        share == Tenths(100) * on - engine.power_level * (on + off)
    IN  /\ share <= Tenths(100)
        /\ -share <= Tenths(100)
        /\ Min(on, off) = engine.minimum_pulse_ms

\* C6, as stated: for every applied level strictly between 0 and 100 other
\* than 1, 50 and 99 the plan realizes the duty cycle level/100 and its
\* shorter pulse is M.
C6_DutyOpenInterval ==
    (/\ engine.power_level > Tenths(0)
     /\ engine.power_level < Tenths(100)
     /\ engine.power_level \notin { Tenths(1), Tenths(50), Tenths(99) })
        => DutyMatches

\* C6, amended: the same for every applied level from 1 to 99.
C6_DutyFromOneTo99 ==
    (engine.power_level >= Tenths(1) /\ engine.power_level <= Tenths(99))
        => DutyMatches

\* level 20 is applied with the default pulse width: 2 s on, 8 s off
C6_Witness ==
    /\ pc = "plan"
    /\ engine.power_level = Tenths(20)
    /\ engine.on_ms = MINIMUM_PULSE_WIDTH_MS
    /\ engine.off_ms = 4 * MINIMUM_PULSE_WIDTH_MS

\* C7: when a poll of the engine changes the physical output (the levels
\* stored and applied being within 0 to 100), the output's previous change
\* is at least M back.
C7_MinimumPulse ==
    [][ (/\ EnginePolls
         /\ powercontrol.power_level \in Tenths(0) .. Tenths(100)
         /\ engine.power_level \in Tenths(0) .. Tenths(100)
         /\ engine'.power_on # engine.power_on)
            => since_flip >= engine.minimum_pulse_ms ]_vars

\* C8: an engine poll that ends in Standby leaves the bus record as it was.
C8_StandbyKeepsBus ==
    [][ (EnginePolls /\ engine'.standby) => powercontrol' = powercontrol ]_vars

\* the engine is in Standby and the bus still shows the requested level
C8_Witness ==
    /\ pc = "sleep"
    /\ engine.standby
    /\ powercontrol.power_level # engine.power_level

\* C9: at the end of a cycle in which the gateway wrote the bus record, the
\* engine has seen the write, is Active and applies the stored level.
C9_SameCycle ==
    (pc = "sleep" /\ wrote) =>
        /\ engine.last_update_ms = powercontrol.last_update_ms
        /\ engine.power_level = powercontrol.power_level
        /\ ~engine.standby

\* a cycle in which 60 was written ends with the engine applying 60
C9_Witness ==
    /\ pc = "sleep"
    /\ wrote
    /\ engine.power_level = Tenths(60)
    /\ engine.power_on

\* C10: after the engine's shutdown () the applied level is 0 and the
\* output is off.
C10_ShutdownOff ==
    pc = "stopped" => (engine.power_level = Tenths(0) /\ ~engine.power_on)

\* the engine has seen the latest write of the bus record
SeenLatest == engine.last_update_ms = powercontrol.last_update_ms

\* the step leaves the pulse plan as it was
PlanKept == engine'.on_ms = engine.on_ms /\ engine'.off_ms = engine.off_ms

\* the step changes the output only when the current time has reached
\* next_transition_ms
FlipsOnlyWhenDue ==
    engine'.power_on # engine.power_on => active_now(now, engine.change_ms)

\* C11, as stated: an engine poll with no unseen write of the bus record
\* leaves the pulse plan as it was, and changes the output only when the
\* current time has reached next_transition_ms.
C11_PollKeepsPlan ==
    [][ (EnginePolls /\ SeenLatest) => (PlanKept /\ FlipsOnlyWhenDue) ]_vars

\* C11, amended: the same for the polls that do not enter Standby; those
\* polls also leave the applied level and the standby flag as they were.
C11_PollKeepsPlanUnlessStandby ==
    [][ (EnginePolls /\ SeenLatest /\ ~(engine'.standby /\ ~engine.standby))
            => /\ PlanKept
               /\ FlipsOnlyWhenDue
               /\ engine'.power_level = engine.power_level
               /\ engine'.standby = engine.standby ]_vars

\* a poll with nothing new on the bus has just flipped the output of an
\* engine that applies the 60 written in an earlier cycle
C11_Witness ==
    /\ pc = "sleep"
    /\ ~wrote
    /\ SeenLatest
    /\ ~engine.standby
    /\ engine.power_level = Tenths(60)
    /\ since_flip = 0

\* a datagram that does not decode or parse, or whose request lacks the
\* method or the params field
Malformed(datagram) ==
    ~datagram.parses \/ datagram.method = "none" \/ ~datagram.has_params

\* C12: when the gateway receives a malformed datagram, the bus record is
\* left as it was and the gateway's poll goes on to the next queued
\* datagram: no exception escapes it.
C12_MalformedDropped ==
    [][ \A datagram \in Datagrams :
            (Malformed(datagram) /\ GatewayReceive(datagram))
                => (pc' = "udp" /\ powercontrol' = powercontrol) ]_vars

\* a set_power_level request the gateway decodes and dispatches
Dispatched(datagram) ==
    /\ datagram.parses
    /\ datagram.has_jsonrpc
    /\ datagram.has_params
    /\ datagram.method = "set_power_level"

\* params without power_level, or whose power_level is not a number
Unreadable(params) == ~params.has_power_level \/ ~params.numeric

\* C13: a set_power_level whose params lack power_level, or whose
\* power_level is not a number, leaves the bus record (level and stamp) as
\* it was and raises nothing, on the datagram path and on the web path; the
\* engine poll of a cycle without a bus write leaves Standby and the
\* engine's last-seen stamp as they were.
C13_NoWriteWithoutNumber ==
    [][ /\ \A datagram \in Datagrams :
               (/\ Dispatched(datagram)
                /\ Unreadable(datagram.params)
                /\ GatewayReceive(datagram))
                   => (/\ powercontrol' = powercontrol
                       /\ pc' = "udp"
                       /\ wrote' = wrote)
        /\ \A request \in WebRequests :
               (/\ request.kind = "query"
                /\ Unreadable(request.params)
                /\ GatewayPollWeb(request))
                   => (/\ powercontrol' = powercontrol
                       /\ pc' = "engine"
                       /\ wrote' = wrote)
        /\ (EnginePolls /\ ~wrote /\ engine.standby)
               => (/\ engine'.standby
                   /\ engine'.last_update_ms = engine.last_update_ms) ]_vars

\* an engine in Standby is about to poll in a cycle whose only input was a
\* web form with a power_level that is not a number
C13_Witness ==
    /\ pc = "engine"
    /\ engine.standby
    /\ ~wrote
    /\ handled.input =
           << [kind |-> "query",
               params |-> [has_power_level |-> TRUE, numeric |-> FALSE,
                           value |-> 0]] >>

\* a request with method set_power_level and params that hold a numeral
CarriesLevel(datagram) ==
    /\ datagram.parses
    /\ datagram.has_params
    /\ datagram.method = "set_power_level"
    /\ datagram.params.has_power_level
    /\ datagram.params.numeric

\* the record holds the numeral rounded to one decimal (a tie either way)
\* and the stamp of the write
StoresRounded(record, hundredths) ==
    /\ record.power_level * 10 - hundredths \in -5 .. 5
    /\ record.last_update_ms = now

\* C14, as stated: a datagram whose request has method set_power_level and
\* params with a numeric power_level, with or without a jsonrpc field,
\* leaves the numeral rounded to one decimal in the bus record.
C14_StoresWithoutEnvelope ==
    [][ \A datagram \in Datagrams :
            (CarriesLevel(datagram) /\ GatewayReceive(datagram))
                => StoresRounded(powercontrol', datagram.params.value) ]_vars

\* C14, amended: it does when the request also has the jsonrpc field;
\* without that field the request is dropped and the record is left as it
\* was.
C14_StoresWithEnvelope ==
    [][ \A datagram \in Datagrams :
            (CarriesLevel(datagram) /\ GatewayReceive(datagram))
                => IF datagram.has_jsonrpc
                   THEN StoresRounded(powercontrol', datagram.params.value)
                   ELSE powercontrol' = powercontrol ]_vars

\* the gateway has just handled a complete request with power_level
\* "42.26" and the record holds 42.3
C14_Witness ==
    /\ pc = "udp"
    /\ handled.input =
           << Datagram(TRUE, TRUE, "set_power_level", TRUE,
                       [has_power_level |-> TRUE, numeric |-> TRUE,
                        value |-> 4226]) >>
    /\ powercontrol.power_level = 423
    /\ wrote

\* C15: a web request without a query string (GET /, or the GET of a path)
\* leaves the bus record, level and stamp, as it was.
C15_PlainGetKeepsRecord ==
    [][ \A request \in WebRequests :
            (request.kind \in { "root", "file" } /\ GatewayPollWeb(request))
                => powercontrol' = powercontrol ]_vars

\* the gateway has just served GET / in a later cycle than the
\* GET /?power_level=10 that wrote the 10.0 the record still holds
C15_Witness ==
    /\ pc = "engine"
    /\ handled.input = << [kind |-> "root", params |-> NoParams] >>
    /\ powercontrol.power_level = Tenths(10)
    /\ silence > 0
    /\ ~wrote

\* C16: every connection the gateway accepts is sent the page that shows
\* the stored power level, whether or not the request wrote it, and is
\* closed when the gateway's poll returns.
C16_PageAndClose ==
    [][ \A request \in WebRequests :
            (request.kind # "none" /\ GatewayPollWeb(request))
                => (/\ handled'.page = << powercontrol'.power_level >>
                    /\ handled'.closed) ]_vars

\* C17: of any two successive polls of the gateway one serves the datagram
\* channel and the other the connection channel, and the first poll serves
\* the datagram channel.
C17_RoundRobin ==
    /\ served[2] = "udp" => served[1] \in { "none", "web" }
    /\ served[2] = "web" => served[1] = "udp"
    /\ served[2] = "none" => served[1] = "none"

\* the gateway polls its datagram channel for the second time, after a poll
\* of the connection channel
C17_Witness ==
    /\ pc = "udp"
    /\ served = << "web", "udp" >>

\* C18: when the gateway receives a complete pid_update request, its
\* params are merged into the "pid_settings" record with temperature_update
\* set by whether they hold current_temperature, and the gateway's poll
\* goes on.
C18_PidUpdateMerges ==
    [][ \A datagram \in Datagrams :
            (/\ datagram.parses
             /\ datagram.has_jsonrpc
             /\ datagram.has_params
             /\ datagram.method = "pid_update"
             /\ GatewayReceive(datagram))
                => (/\ pc' = "udp"
                    /\ pid'.pid_settings =
                           message_set(pid.pid_settings,
                               [temperature_update |->
                                    datagram.params.has_current_temperature],
                               now)) ]_vars

\* C19: the poll of the PID bridge that follows a write of "pid_settings"
\* with a temperature sample writes a level within 0 to 100 to the
\* "powercontrol" record and raises nothing; the poll that follows a write
\* without a sample leaves "powercontrol" as it was.
C19_BridgeReacts ==
    [][ (BridgePoll /\ handled.input # << >> /\ silence > 0)
            => IF handled.input[1].temperature_update
               THEN /\ powercontrol'.last_update_ms = now
                    /\ powercontrol'.power_level \in Tenths(0) .. Tenths(100)
                    /\ pc' = "pid"
               ELSE powercontrol' = powercontrol ]_vars

\* the step applies a level: an engine poll that takes over another level
\* from the bus or enters Standby, or the engine's shutdown ()
AppliesLevel ==
    \/ /\ EnginePolls
       /\ \/ engine'.power_level # engine.power_level
          \/ engine'.standby /\ ~engine.standby
    \/ pc # "stopped" /\ pc' = "stopped"

\* C20: a step that applies a level strictly higher than the one applied
\* before drives the output on and sets next_transition_ms to now plus the
\* new on duration; one that applies a lower or equal level drives the
\* output off and sets next_transition_ms to now plus the new off duration.
C20_DirectionCommit ==
    [][ AppliesLevel =>
            IF engine'.power_level > engine.power_level
            THEN /\ engine'.power_on
                 /\ engine'.change_ms = ticks_add(now, engine'.on_ms)
            ELSE /\ ~engine'.power_on
                 /\ engine'.change_ms = ticks_add(now, engine'.off_ms) ]_vars

\* the poll of a cycle in which 20 was written has just driven the output
\* off, the level applied before being higher
C20_Witness ==
    /\ pc = "sleep"
    /\ wrote
    /\ engine.power_level = Tenths(20)
    /\ ~engine.power_on
    /\ since_flip = 0
    /\ engine.change_ms = ticks_add(now, engine.off_ms)

\* the engine poll observes no new bus timestamp and the current time has
\* reached next_transition_ms
DuePoll ==
    /\ EnginePolls
    /\ SeenLatest
    /\ active_now(now, engine.change_ms)

\* the step flips the output and sets next_transition_ms to now plus the
\* duration of the pulse that begins
FlipsAndSchedules ==
    /\ engine'.power_on = ~engine.power_on
    /\ engine'.change_ms =
           ticks_add(now, IF engine.power_on THEN engine.off_ms
                                             ELSE engine.on_ms)

\* the duration of the pulse a flip would begin
OtherDuration == IF engine.power_on THEN engine.off_ms ELSE engine.on_ms

\* C21, as stated: every engine poll that observes no new bus timestamp at
\* a time that has reached next_transition_ms flips the output and sets
\* next_transition_ms to now plus the other duration of the plan.
C21_FlipsWhenDue ==
    [][ DuePoll => FlipsAndSchedules ]_vars

\* C21, amended: it does when the poll does not enter Standby and the
\* other duration is not zero, and then with the plan, the level and the
\* standby flag left as they were.
C21_FlipsWhenDueAndActive ==
    [][ (/\ DuePoll
         /\ ~(engine'.standby /\ ~engine.standby)
         /\ OtherDuration > 0)
            => /\ FlipsAndSchedules
               /\ PlanKept
               /\ engine'.power_level = engine.power_level
               /\ engine'.standby = engine.standby ]_vars

\* a poll with nothing new on the bus has just switched the output off at
\* level 60 (3 ticks on, 2 off) and the next flip is one off duration away
C21_Witness ==
    /\ pc = "sleep"
    /\ ~wrote
    /\ SeenLatest
    /\ ~engine.standby
    /\ engine.power_level = Tenths(60)
    /\ engine.on_ms # engine.off_ms
    /\ ~engine.power_on
    /\ since_flip = 0
    /\ engine.change_ms = ticks_add(now, engine.off_ms)

\* C22: the engine enters Standby only at a poll that observes no new bus
\* timestamp, with an applied level strictly above the fallback level and
\* strictly more than timeout_ms elapsed since the last bus update, and
\* the level it then applies is not higher than the one before; a poll
\* that observes a new bus timestamp does not enter Standby.
C22_StandbyOnlyOnTimeout ==
    [][ /\ (engine'.standby /\ ~engine.standby)
               => /\ EnginePolls
                  /\ SeenLatest
                  /\ engine.power_level > engine.standby_power_level
                  /\ silence > engine.standby_timeout
                  /\ ticks_diff(now, engine.last_update_ms)
                         > engine.standby_timeout
                  /\ engine'.power_level <= engine.power_level
        /\ (EnginePolls /\ ~SeenLatest) => ~engine'.standby ]_vars

\* an Active engine above the fallback level is about to poll more than
\* timeout_ms after the last update it saw, with a new write on the bus
C22_Witness ==
    /\ pc = "engine"
    /\ ~SeenLatest
    /\ ~engine.standby
    /\ engine.power_level > engine.standby_power_level
    /\ ticks_diff(now, engine.last_update_ms) > engine.standby_timeout

\* C23: at a poll of an Active engine above the fallback level that has
\* seen the latest write, Standby is entered exactly when more than
\* timeout_ms of real time has elapsed since that write, whether or not the
\* tick counter has wrapped in between.
C23_WrapImmune ==
    [][ (EnginePolls /\ ActiveAboveFallback)
            => (EntersStandby <=> silence > engine.standby_timeout) ]_vars

\* the engine has entered Standby at a tick that is, as a number, below the
\* stamp of the last update: the counter wrapped during the silence
C23_Witness ==
    /\ pc = "sleep"
    /\ engine.standby
    /\ SeenLatest
    /\ now < engine.last_update_ms
    /\ silence > engine.standby_timeout
    /\ since_flip = 0

\* the engine has polled at least once
Polled ==
    \/ served[1] # "none"
    \/ served[2] # "none" /\ pc \in { "sleep", "timer", "gateway" }

\* C24: while the loop runs and no command has written the bus record, the
\* output is not driven on and, from the engine's first poll on, the
\* applied level is 0.
C24_SafeStart ==
    (~commanded /\ pc \notin { "stopped", "crashed" })
        => (/\ ~engine.power_on
            /\ Polled => engine.power_level = Tenths(0))

\* the engine applies the fallback level and its plan
AppliesFallback ==
    /\ engine.power_level = engine.standby_power_level
    /\ engine.on_ms = ExactOn(engine.minimum_pulse_ms,
                              engine.standby_power_level)
    /\ engine.off_ms = ExactOff(engine.minimum_pulse_ms,
                                engine.standby_power_level)

\* C25, as stated: in every state in which the standby flag is set the
\* engine applies the fallback level and the plan of the fallback level.
C25_StandbyAppliesFallback == engine.standby => AppliesFallback

\* C25, amended: in every such state before the engine's shutdown ().
C25_StandbyAppliesFallbackUntilShutdown ==
    (engine.standby /\ pc # "stopped") => AppliesFallback

\* an engine in Standby is about to poll again: fallback level 20, the
\* minimum pulse on and four times as long off
C25_Witness ==
    /\ pc = "engine"
    /\ engine.standby
    /\ engine.power_level = STANDBY_POWER_LEVEL
    /\ engine.on_ms = engine.minimum_pulse_ms
    /\ engine.off_ms = 4 * engine.minimum_pulse_ms

\* C26: the poll of an Active engine that observes a write re-sending the
\* level it applies takes over the stamp of the write and leaves everything
\* else (plan, output, next_transition_ms) as it was.
C26_HeartbeatFrame ==
    [][ (/\ EnginePolls
         /\ ~SeenLatest
         /\ ~engine.standby
         /\ powercontrol.power_level = engine.power_level)
            => /\ engine' = [engine EXCEPT !.last_update_ms =
                                               powercontrol.last_update_ms]
               /\ powercontrol' = powercontrol ]_vars

\* an Active engine whose output is on and whose flip is due is about to
\* poll in a cycle that re-sent the 60 it applies
C26_Witness ==
    /\ pc = "engine"
    /\ wrote
    /\ ~SeenLatest
    /\ ~engine.standby
    /\ engine.power_level = Tenths(60)
    /\ powercontrol.power_level = Tenths(60)
    /\ engine.power_on
    /\ active_now(now, engine.change_ms)

\* from some point on the engine's applied level no longer changes and lies
\* in [1,99]
SteadyCommand ==
    /\ <>[][engine'.power_level = engine.power_level]_vars
    /\ <>[](engine.power_level >= Tenths(1) /\ engine.power_level <= Tenths(99))

====
